---- MODULE Spec2Model ----
(***************************************************************************)
(* A model of upsonicai.py: the SerpAPITool.search tool and the            *)
(* /double-search/ handler perform_double_search.                          *)
(*                                                                         *)
(* The handler builds two tasks, hands each to client.agent (the Upsonic   *)
(* agent runner, an external library driven by an LLM), reads the two      *)
(* task responses and merges them.  The agent runner is not part of the    *)
(* source: the model lets it do whatever the source allows it to do, which *)
(* is to call the one tool bound to the task any number of times           *)
(* (bounded here), and to end by raising, by leaving the response absent,  *)
(* or by setting a response that fits response_format.                     *)
(*                                                                         *)
(* Python values: None is the empty tuple <<>> and a present value v is    *)
(* <<v>>.  An f-string is the tuple of its pieces.                         *)
(***************************************************************************)
EXTENDS Integers, Sequences, FiniteSets, TLC

VARIABLES
    api_key,      \* os.getenv("SERPAPI_API_KEY"): None or <<string>>
    input_data,   \* the DoubleSearchInput of the request
    pc,           \* the handler's position
    task,         \* search_task1, search_task2
    handed,       \* handed[i]: how often task i was passed to client.agent
    tool,         \* the agent's search invocation in flight or just ended
    toolCalls,    \* searches the running agent has started
    obtained,     \* obtained[i]: hits the last successful search of run i returned
    toolRaised,   \* some search of this request raised
    reply         \* what the request ended with: None, a payload or an error

vars == <<api_key, input_data, pc, task, handed, tool, toolCalls, obtained,
          toolRaised, reply>>

----------------------------------------------------------------------------
(* Bounds of the model *)

\* longest `organic` array the provider returns
MaxOrganic == 12

\* searches one agent run may start
MaxToolCalls == 2

----------------------------------------------------------------------------
(* Python helpers *)

None == <<>>

Some(v) == <<v>>

\* Python truthiness of an optional string or object: None and "" are falsy
Truthy(o) == o # None /\ o[1] # ""

Min(a, b) == IF a <= b THEN a ELSE b

\* s[:n]
Slice(s, n) == SubSeq(s, 1, Min(n, Len(s)))

\* d.get(k, default)
Get(d, k, default) == IF k \in DOMAIN d THEN d[k] ELSE default

----------------------------------------------------------------------------
(* Inputs: the request, the environment, the provider *)

Keywords == {"rust", "golang"}

DoubleSearchInput == [keyword1 : Keywords, keyword2 : Keywords]

ApiKeys == {None, Some(""), Some("key")}

Fields == {"title", "link", "snippet"}

Titles == <<"X", "Y", "Z">>

Links == <<"https://x", "https://y", "https://z">>

Snippets == <<"about x", "about y", "about z">>

FieldValue(f, j) ==
    CASE f = "title" -> Titles[(j % 3) + 1]
      [] f = "link" -> Links[(j % 3) + 1]
      [] OTHER -> Snippets[(j % 3) + 1]

\* which fields the j-th entry of the provider's result stream carries:
\* every subset of the three occurs among eight consecutive entries
PresentFields(j) ==
    {f \in Fields :
        \/ f = "title" /\ ((j + 1) % 2) = 1
        \/ f = "link" /\ (((j + 1) \div 2) % 2) = 1
        \/ f = "snippet" /\ (((j + 1) \div 4) % 2) = 1}

\* the j-th entry of the provider's result stream (j = 0: only title "X")
Entry(j) == [f \in PresentFields(j) |-> FieldValue(f, j)]

\* an `organic` array: the first n entries of the provider's result stream
Organic(n) == [i \in 1..n |-> Entry(i - 1)]

OK == 200

ErrorStatusCodes == {403, 500}

ErrorTexts == {"Unauthorized.", "Internal error"}

\* response.json() of an OK response: `organic` present or missing
OkResponses ==
    {[status_code |-> OK, text |-> "", json |-> [organic |-> Organic(n)]] :
        n \in 0..MaxOrganic}
    \cup {[status_code |-> OK, text |-> "", json |-> [searchParameters |-> <<>>]]}

ErrorResponses ==
    {[status_code |-> s, text |-> t, json |-> [message |-> t]] :
        s \in ErrorStatusCodes, t \in ErrorTexts}

ProviderResponses == OkResponses \cup ErrorResponses

----------------------------------------------------------------------------
(* SerpAPITool.search *)

HTTPException(status, detail) == [status_code |-> status, detail |-> detail]

Return(v) == [kind |-> "return", value |-> v]

Raise(e) == [kind |-> "raise", exc |-> e]

KeyNotFound == HTTPException(500, <<"SerpAPI API Key not found!">>)

RequestFailed(text) == HTTPException(500, <<"SerpAPI Request Failed: ", text>>)

\* faulty variant of SearchResult: the defaults of title and snippet exchanged
DefaultTitleBug(result) ==
    [title |-> Get(result, "title", "No Description"),
     link |-> Get(result, "link", "#"),
     snippet |-> Get(result, "snippet", "No Title")]

\* SearchResult(title=result.get(...), link=..., snippet=...)
SearchResult(result) ==
    [title |-> Get(result, "title", "No Title"),
     link |-> Get(result, "link", "#"),
     snippet |-> Get(result, "snippet", "No Description")]

TopN == 10

\* faulty variant of Top: the slice left out
NoTruncation(search_results) == search_results

\* search_results[:10]
Top(search_results) == Slice(search_results, TopN)

\* [SearchResult(...) for result in search_results[:10]]
Hits(search_results) ==
    [i \in 1..Len(Top(search_results)) |-> SearchResult(Top(search_results)[i])]

\* faulty variant of SearchOutcome: an empty list instead of the raise
EmptyOnError(response) ==
    IF response.status_code = OK
    THEN Return(Hits(Get(response.json, "organic", <<>>)))
    ELSE Return(<<>>)

\* lines 60-73: what search does with the provider's response
SearchOutcome(response) ==
    IF response.status_code = OK
    THEN Return(Hits(Get(response.json, "organic", <<>>)))
    ELSE Raise(RequestFailed(response.text))

IdleTool == [pc |-> "idle", query |-> "", sent |-> 0, http |-> None, result |-> None]

ToolEnded == tool.pc \in {"idle", "returned", "raised"}

\* faulty variant of SearchGetKey: the credential is not checked
SearchGetKeyUnchecked ==
    /\ tool.pc = "getenv"
    /\ tool' = [tool EXCEPT !.pc = "post"]
    /\ UNCHANGED <<api_key, input_data, pc, task, handed, toolCalls, obtained,
                   toolRaised, reply>>

\* lines 48-57: read the credential, fail without it, else build the request
SearchGetKey ==
    /\ tool.pc = "getenv"
    /\ IF ~Truthy(api_key)
       THEN /\ tool' = [tool EXCEPT !.pc = "raised", !.result = Some(Raise(KeyNotFound))]
            /\ toolRaised' = TRUE
       ELSE /\ tool' = [tool EXCEPT !.pc = "post"]
            /\ UNCHANGED toolRaised
    /\ UNCHANGED <<api_key, input_data, pc, task, handed, toolCalls, obtained, reply>>

\* faulty variant of SearchPost: a failed request is sent once more
SearchPostRetrying ==
    /\ tool.pc = "post"
    /\ \E response \in ProviderResponses :
          tool' = [tool EXCEPT !.pc = IF response.status_code = OK \/ tool.sent >= 1
                                      THEN "status" ELSE "post",
                               !.sent = tool.sent + 1,
                               !.http = Some(response)]
    /\ UNCHANGED <<api_key, input_data, pc, task, handed, toolCalls, obtained,
                   toolRaised, reply>>

\* line 59: requests.post(url, headers=headers, data=payload), one request
SearchPost ==
    /\ tool.pc = "post"
    /\ \E response \in ProviderResponses :
          tool' = [tool EXCEPT !.pc = "status",
                               !.sent = tool.sent + 1,
                               !.http = Some(response)]
    /\ UNCHANGED <<api_key, input_data, pc, task, handed, toolCalls, obtained,
                   toolRaised, reply>>

\* the task whose agent run is in progress
Running == IF pc = "agent1" THEN 1 ELSE 2

\* lines 60-73: return the hits or raise; the running agent receives either
SearchEnd ==
    /\ tool.pc = "status"
    /\ LET out == SearchOutcome(tool.http[1]) IN
          /\ tool' = [tool EXCEPT !.pc = IF out.kind = "return" THEN "returned" ELSE "raised",
                                  !.result = Some(out)]
          /\ obtained' = IF out.kind = "return"
                         THEN [obtained EXCEPT ![Running] = Some(out.value)]
                         ELSE obtained
          /\ toolRaised' = (toolRaised \/ out.kind = "raise")
    /\ UNCHANGED <<api_key, input_data, pc, task, handed, toolCalls, reply>>

----------------------------------------------------------------------------
(* perform_double_search *)

\* f"Perform a web search for {keyword} and return the top results."
Description(keyword) ==
    <<"Perform a web search for ", keyword, " and return the top results.">>

\* Task(description=..., tools=[SerpAPITool], response_format=DoubleSearchResponse)
Task(description) ==
    [description |-> description, response |-> None, state |-> "Created"]

search_task1 == task[1]

search_task2 == task[2]

\* lines 88-99
BuildTasks ==
    /\ pc = "build"
    /\ task' = [i \in 1..2 |->
                  Task(Description(IF i = 1 THEN input_data.keyword1
                                   ELSE input_data.keyword2))]
    /\ pc' = "call1"
    /\ UNCHANGED <<api_key, input_data, handed, tool, toolCalls, obtained,
                   toolRaised, reply>>

\* lines 102, 103: client.agent(search_agent, search_task<i>)
CallAgent(i) ==
    /\ pc = (IF i = 1 THEN "call1" ELSE "call2")
    /\ handed' = [handed EXCEPT ![i] = handed[i] + 1]
    /\ task' = [task EXCEPT ![i].state = "Running"]
    /\ pc' = (IF i = 1 THEN "agent1" ELSE "agent2")
    /\ tool' = IdleTool
    /\ toolCalls' = 0
    /\ UNCHANGED <<api_key, input_data, obtained, toolRaised, reply>>

AgentRunning(i) == pc = (IF i = 1 THEN "agent1" ELSE "agent2")

\* the agent calls the task's tool: SerpAPITool.search(query), the query taken
\* from the task's description
AgentInvoke(i) ==
    /\ AgentRunning(i)
    /\ ToolEnded
    /\ toolCalls < MaxToolCalls
    /\ toolCalls' = toolCalls + 1
    /\ tool' = [IdleTool EXCEPT !.pc = "getenv", !.query = task[i].description[2]]
    /\ UNCHANGED <<api_key, input_data, pc, task, handed, obtained, toolRaised, reply>>

\* the lists an agent run may put into a field of its response: response_format
\* only types them list[SearchResult], so no hits, the hits of its last
\* successful search, or these hits repeated
AgentLists(i) ==
    IF obtained[i] = None
    THEN {<<>>}
    ELSE {<<>>, obtained[i][1], obtained[i][1] \o obtained[i][1]}

\* class DoubleSearchResponse
DoubleSearchResponse(i) ==
    [keyword1_results : AgentLists(i), keyword2_results : AgentLists(i)]

\* faulty variant of AfterAgent: the handler goes to its check after task 1
SkipSecondTask(i) == "check"

\* where the handler continues when client.agent returns for task i
AfterAgent(i) == IF i = 1 THEN "call2" ELSE "check"

\* client.agent returns with task.response set to an instance of response_format
AgentComplete(i) ==
    /\ AgentRunning(i)
    /\ ToolEnded
    /\ \E r \in DoubleSearchResponse(i) :
          task' = [task EXCEPT ![i].response = Some(r), ![i].state = "Completed"]
    /\ pc' = AfterAgent(i)
    /\ tool' = IdleTool
    /\ toolCalls' = 0
    /\ UNCHANGED <<api_key, input_data, handed, obtained, toolRaised, reply>>

\* client.agent returns and task.response is still None
AgentNoResponse(i) ==
    /\ AgentRunning(i)
    /\ ToolEnded
    /\ task' = [task EXCEPT ![i].state = "Failed"]
    /\ pc' = AfterAgent(i)
    /\ tool' = IdleTool
    /\ toolCalls' = 0
    /\ UNCHANGED <<api_key, input_data, handed, obtained, toolRaised, reply>>

InternalServerError == HTTPException(500, <<"Internal Server Error">>)

Error(e) == [kind |-> "error", status_code |-> e.status_code, detail |-> e.detail]

\* client.agent raises: the tool's exception or one of its own.  Nothing in
\* perform_double_search catches it, so the request ends there.
AgentRaise(i) ==
    /\ AgentRunning(i)
    /\ ToolEnded
    /\ \E e \in {InternalServerError}
               \cup (IF tool.pc = "raised" THEN {tool.result[1].exc} ELSE {}) :
          reply' = Some(Error(e))
    /\ task' = [task EXCEPT ![i].state = "Failed"]
    /\ pc' = "done"
    /\ tool' = IdleTool
    /\ toolCalls' = 0
    /\ UNCHANGED <<api_key, input_data, handed, obtained, toolRaised>>

FetchFailed == HTTPException(500, <<"Failed to fetch search results.">>)

\* faulty variant of Payload: the other half of each response is taken
SwappedHalves(input, search_data1, search_data2) ==
    [kind |-> "payload",
     keyword1 |-> input.keyword1,
     keyword1_results |-> search_data1.keyword2_results,
     keyword2 |-> input.keyword2,
     keyword2_results |-> search_data2.keyword1_results]

\* lines 111-116
Payload(input, search_data1, search_data2) ==
    [kind |-> "payload",
     keyword1 |-> input.keyword1,
     keyword1_results |-> search_data1.keyword1_results,
     keyword2 |-> input.keyword2,
     keyword2_results |-> search_data2.keyword2_results]

\* used by the faulty variant below: a response with no hits
EmptyResponse == [keyword1_results |-> <<>>, keyword2_results |-> <<>>]

\* faulty variant of CheckResponses: fails only when both responses are
\* absent and returns an empty list for the one that is
PartialSuccess ==
    /\ pc = "check"
    /\ LET search_data1 == search_task1.response
           search_data2 == search_task2.response
       IN  reply' = IF search_data1 = None /\ search_data2 = None
                    THEN Some(Error(FetchFailed))
                    ELSE Some(Payload(input_data,
                                      IF search_data1 = None THEN EmptyResponse
                                      ELSE search_data1[1],
                                      IF search_data2 = None THEN EmptyResponse
                                      ELSE search_data2[1]))
    /\ pc' = "done"
    /\ UNCHANGED <<api_key, input_data, task, handed, tool, toolCalls, obtained,
                   toolRaised>>

\* lines 105-116: read both responses, fail unless both are there, else merge.
\* A response object is truthy; only None is not.
CheckResponses ==
    /\ pc = "check"
    /\ LET search_data1 == search_task1.response
           search_data2 == search_task2.response
       IN  reply' = IF search_data1 = None \/ search_data2 = None
                    THEN Some(Error(FetchFailed))
                    ELSE Some(Payload(input_data, search_data1[1], search_data2[1]))
    /\ pc' = "done"
    /\ UNCHANGED <<api_key, input_data, task, handed, tool, toolCalls, obtained,
                   toolRaised>>

----------------------------------------------------------------------------
(* The specification: one request *)

Init ==
    /\ api_key \in ApiKeys
    /\ input_data \in DoubleSearchInput
    /\ pc = "build"
    /\ task = [i \in 1..2 |-> [description |-> <<>>, response |-> None,
                               state |-> "Unbuilt"]]
    /\ handed = [i \in 1..2 |-> 0]
    /\ tool = IdleTool
    /\ toolCalls = 0
    /\ obtained = [i \in 1..2 |-> None]
    /\ toolRaised = FALSE
    /\ reply = None

Next ==
    \/ BuildTasks
    \/ \E i \in 1..2 : CallAgent(i)
    \/ \E i \in 1..2 : AgentInvoke(i)
    \/ SearchGetKey
    \/ SearchPost
    \/ SearchEnd
    \/ \E i \in 1..2 : AgentComplete(i)
    \/ \E i \in 1..2 : AgentNoResponse(i)
    \/ \E i \in 1..2 : AgentRaise(i)
    \/ CheckResponses

Spec == Init /\ [][Next]_vars

----------------------------------------------------------------------------
(* Properties *)

IsPayload == reply # None /\ reply[1].kind = "payload"

IsError == reply # None /\ reply[1].kind = "error"

Terminal(i) == task[i].state \in {"Completed", "Failed"}

\* task i failed or ended without a response
NoResult(i) == task[i].state # "Completed" \/ task[i].response = None

\* the search in `tool` has ended on an OK provider response with a non-empty
\* `organic` array
EndedOnOrganic ==
    /\ tool.pc \in {"returned", "raised"}
    /\ tool.http # None
    /\ tool.http[1].status_code = 200
    /\ "organic" \in DOMAIN tool.http[1].json
    /\ Len(tool.http[1].json.organic) > 0

\* C1: a request in which a task failed or left no response ends in one
\* failure with status 500 that carries no result list of either keyword; a
\* payload is produced only when both responses are present, and the request
\* ends with exactly one reply.
C1_NoPartialSuccess ==
    /\ reply # None => pc = "done"
    /\ pc = "done" => reply # None
    /\ IsPayload => \A i \in 1..2 : task[i].response # None /\ task[i].state = "Completed"
    /\ (pc = "done" /\ \E i \in 1..2 : NoResult(i)) =>
          /\ IsError
          /\ reply[1].status_code = 500
          /\ DOMAIN reply[1] \cap {"keyword1_results", "keyword2_results"} = {}

\* C1 witness: keyword1's task completed with hits, keyword2's task left no
\* response, and the request failed.
C1_Witness ==
    /\ pc = "done"
    /\ task[1].state = "Completed"
    /\ task[1].response # None
    /\ Len(task[1].response[1].keyword1_results) > 0
    /\ task[2].response = None
    /\ IsError

\* C2: on an OK response with a non-empty organic array, search returns
\* min(10, length) hits and the i-th hit is the one built from the i-th entry.
C2_TopTenInOrder ==
    EndedOnOrganic =>
        LET organic == tool.http[1].json.organic IN
        /\ tool.result # None
        /\ tool.result[1].kind = "return"
        /\ Len(tool.result[1].value) = (IF Len(organic) < 10 THEN Len(organic) ELSE 10)
        /\ \A i \in 1..Len(tool.result[1].value) :
              tool.result[1].value[i] = SearchResult(organic[i])

\* C2 witness: a search returned on an array of more than 10 entries.
C2_Witness ==
    /\ EndedOnOrganic
    /\ tool.pc = "returned"
    /\ Len(tool.http[1].json.organic) > 10

\* C3: in a success payload each result list has at most 10 elements.
C3_AtMostTenInPayload ==
    IsPayload =>
        /\ Len(reply[1].keyword1_results) <= 10
        /\ Len(reply[1].keyword2_results) <= 10

\* C4: when both tasks completed and a search returned hits in each run, the
\* payload's keyword1_results are the hits of run 1's search and its
\* keyword2_results the hits of run 2's search.
C4_HitsAttributed ==
    (/\ IsPayload
     /\ \A i \in 1..2 : obtained[i] # None /\ Len(obtained[i][1]) > 0) =>
        /\ reply[1].keyword1_results = obtained[1][1]
        /\ reply[1].keyword2_results = obtained[2][1]

\* C5: the payload carries the caller's two keywords unchanged, task 1's
\* keyword1_results and task 2's keyword2_results.
C5_PayloadFields ==
    IsPayload =>
        /\ reply[1].keyword1 = input_data.keyword1
        /\ reply[1].keyword2 = input_data.keyword2
        /\ reply[1].keyword1_results = task[1].response[1].keyword1_results
        /\ reply[1].keyword2_results = task[2].response[1].keyword2_results

\* C5 witness: a payload built from two responses whose halves differ, with
\* two different keywords.
C5_Witness ==
    /\ IsPayload
    /\ input_data.keyword1 # input_data.keyword2
    /\ \A i \in 1..2 :
          task[i].response[1].keyword1_results # task[i].response[1].keyword2_results

\* C6: on a provider status other than 200, search raises an error carrying
\* the provider's text and returns no hits.
C6_ProviderError ==
    (/\ tool.pc \in {"returned", "raised"}
     /\ tool.http # None
     /\ tool.http[1].status_code # 200) =>
        /\ tool.pc = "raised"
        /\ tool.result = <<[kind |-> "raise",
                            exc |-> [status_code |-> 500,
                                     detail |-> <<"SerpAPI Request Failed: ",
                                                  tool.http[1].text>>]]>>

\* C6 witness: a search ended on a 403 response.
C6_Witness ==
    /\ tool.pc = "raised"
    /\ tool.http # None
    /\ tool.http[1].status_code = 403

\* C7: without a credential (unset or empty), a search sends no provider
\* request, receives no response, and ends by raising the configuration error.
C7_NoKeyNoRequest ==
    (api_key = None \/ api_key = <<"">>) =>
        /\ tool.sent = 0
        /\ tool.http = None
        /\ tool.pc \in {"idle", "getenv", "raised"}
        /\ tool.pc = "raised" =>
              tool.result = <<[kind |-> "raise",
                               exc |-> [status_code |-> 500,
                                        detail |-> <<"SerpAPI API Key not found!">>]]>>

\* C7 witness: a search was called with the credential unset and has raised.
C7_Witness ==
    /\ api_key = None
    /\ tool.pc = "raised"
    /\ tool.sent = 0

C8_Default(f) ==
    CASE f = "title" -> "No Title"
      [] f = "link" -> "#"
      [] f = "snippet" -> "No Description"

\* C8: every field missing from a provider entry is the documented default in
\* the hit, every field present is copied unchanged; an entry with only title
\* "X" yields title "X", link "#", snippet "No Description".
C8_Defaults ==
    (EndedOnOrganic /\ tool.pc = "returned") =>
        LET organic == tool.http[1].json.organic
            hits == tool.result[1].value
        IN  \A i \in 1..Len(hits) :
              /\ \A f \in {"title", "link", "snippet"} :
                    hits[i][f] = IF f \in DOMAIN organic[i] THEN organic[i][f]
                                 ELSE C8_Default(f)
              /\ (DOMAIN organic[i] = {"title"} /\ organic[i].title = "X") =>
                    hits[i] = [title |-> "X", link |-> "#", snippet |-> "No Description"]

\* C8 witness: a search returned hits for an array holding an entry with only
\* title "X", an entry with no field and an entry with all three.
C8_Witness ==
    /\ EndedOnOrganic
    /\ tool.pc = "returned"
    /\ LET organic == tool.http[1].json.organic IN
          /\ \E i \in 1..Len(tool.result[1].value) :
                DOMAIN organic[i] = {"title"} /\ organic[i].title = "X"
          /\ \E i \in 1..Len(tool.result[1].value) : DOMAIN organic[i] = {}
          /\ \E i \in 1..Len(tool.result[1].value) :
                DOMAIN organic[i] = {"title", "link", "snippet"}

\* C9 as claimed: whenever the request has ended, by a payload or by any
\* failure, both tasks have reached a terminal state.
C9_DecisionAfterBothTerminal ==
    reply # None => Terminal(1) /\ Terminal(2)

\* C9 amended: the check of the two responses, a payload and the "Failed to
\* fetch" failure come only after both tasks are terminal, and a task 1 that
\* ended without raising is followed by the run of task 2; a request that
\* ended with task 2 not terminal ended by the exception task 1's run raised,
\* with task 2 never handed to the agent.
C9_CheckAfterBothTerminal ==
    /\ (\/ pc = "check"
        \/ IsPayload
        \/ (IsError /\ reply[1].detail = <<"Failed to fetch search results.">>)) =>
          Terminal(1) /\ Terminal(2)
    /\ (pc \in {"call2", "agent2", "check"}) => Terminal(1) /\ reply = None
    /\ (reply # None /\ ~Terminal(2)) =>
          /\ task[1].state = "Failed"
          /\ task[2].state = "Created"
          /\ handed[2] = 0
          /\ IsError
          /\ reply[1].detail # <<"Failed to fetch search results.">>

\* C9 witness: task 1 failed without a response, task 2 was still run to
\* completion, and the handler is at its check.
C9_Witness ==
    /\ pc = "check"
    /\ task[1].state = "Failed"
    /\ task[2].state = "Completed"

====
